---- MODULE Spec2Model ----
(***************************************************************************)
(* Order Execution Engine: the order lifecycle engine (processOrder), the  *)
(* quote router, the execution simulator, the submission handlers and the  *)
(* queue that dispatches orders to the engine.                             *)
(*                                                                         *)
(* Spec   : the TypeScript deployment (fastify POST handler, orderQueue,   *)
(*          orderWorker.processOrder, db.ts), one submission.              *)
(* SpecJs : the JavaScript deployment (server.js, worker.js, lib/*.js),    *)
(*          one submission.                                                *)
(*                                                                         *)
(* Prices are integers in units of 1e-6 (micro); Math.random() draws are   *)
(* taken from small sets of values of the draw's range.                    *)
(***************************************************************************)
EXTENDS Integers, Sequences, FiniteSets, TLC

VARIABLES
  request,    \* the HTTP request body the client is about to POST, or Handled
  response,   \* the HTTP response to it, or NoResponse
  db,         \* the orders table: id -> row, or NoRow
  jobs,       \* the queue: job id -> job, or NoJob
  proc,       \* the activation of processOrder per id it was invoked with
  swaps,      \* every SwapResult executeSwap has returned, in order, with the id
  now,        \* Date.now(), in ms since start
  cache,      \* Redis: the order:<id> entries and the active_orders set
  faults,     \* how many adapter calls of the JavaScript deployment have failed
  wsClients,  \* the observer registry: order id -> the connection whose sender
              \* is registered, or NoSender
  sockets     \* the WebSocket connections: their state and the frames sent to them

vars == <<request, response, db, jobs, proc, swaps, now, cache, faults, wsClients, sockets>>

-----------------------------------------------------------------------------
(* JavaScript values *)

Undefined == [t |-> "undefined"]
Num(n) == [t |-> "number", n |-> n]
Str(s) == [t |-> "string", s |-> s]

\* ToBoolean: undefined, 0 and "" are falsy.
Truthy(x) ==
  CASE x.t = "undefined" -> FALSE
    [] x.t = "number" -> x.n # 0
    [] x.t = "string" -> x.s # ""
    [] OTHER -> TRUE

\* A thrown value: new Error(message).
Err(m) == [kind |-> "Error", message |-> m]

\* String(err) of an Error: "Error" or "Error: <message>".
String(e) == IF e.message = "" THEN "Error" ELSE "Error: " \o e.message

\* Promise states.
NotCalled == [state |-> "none"]
Unsettled == [state |-> "pending"]
Fulfilled(v) == [state |-> "fulfilled", value |-> v]
Rejected(e) == [state |-> "rejected", reason |-> e]

-----------------------------------------------------------------------------
(* MockDexRouter (src/dex/mockDexRouter.ts) *)

Micro == 1000 * 1000

basePrice == 100

\* Math.random() * 0.04 and Math.random() * 0.05, in micro: values of [0, 40000)
\* and of [0, 50000).
RaydiumDraws == {0, 20000}
MeteoraDraws == {10000, 30000}

\* (Math.random() - 0.5) * 0.01, in micro: values of [-5000, 5000).
SwapDraws == {-5000, 4800}

\* A Raydium source that quotes with Meteora's fee.
getRaydiumQuote_fee(x) ==
  [price |-> basePrice * (980000 + x), fee |-> 2000, dex |-> "raydium"]

getRaydiumQuote(x) ==
  [price |-> basePrice * (980000 + x), fee |-> 3000, dex |-> "raydium"]

getMeteoraQuote(y) ==
  [price |-> basePrice * (970000 + y), fee |-> 2000, dex |-> "meteora"]

\* The quotes the tests stub in with jest.spyOn(...).mockImplementation.
StubbedRaydium == {[price |-> 120 * Micro, fee |-> 3000, dex |-> "raydium"]}
StubbedMeteora == {[price |-> 101 * Micro, fee |-> 2000, dex |-> "meteora"]}

RaydiumQuotes == {getRaydiumQuote(x) : x \in RaydiumDraws} \cup StubbedRaydium
MeteoraQuotes == {getMeteoraQuote(y) : y \in MeteoraDraws} \cup StubbedMeteora

\* What a quote call and the execution can throw.
QuoteErrors == {Err("quote failed")}
SwapErrors == {Err("swap failed"), Err("")}

\* basePrice * (dex === 'raydium' ? 1.0 : 0.995) * (1 + n)
executedPrice(dex, n) ==
  basePrice * (((IF dex = "raydium" THEN 1000 ELSE 995) * (Micro + n)) \div 1000)

\* uuidv4() of the uuid package: an identifier that was not issued before.
Uuids == {"u1", "u2", "u3", "u4", "u5"}
uuidv4(used) == CHOOSE u \in Uuids : u \notin used

executeSwap(dex, n, txHash) ==
  [txHash |-> txHash, executedPrice |-> executedPrice(dex, n)]

-----------------------------------------------------------------------------
(* Identifiers *)

\* BullMQ numbers the jobs of a queue that are added without a jobId.
BullIdSeq == <<"1", "2">>
BullIds == {BullIdSeq[k] : k \in DOMAIN BullIdSeq}

Ids == Uuids \cup BullIds

NoRow == [t |-> "undefined"]
NoEntry == [t |-> "undefined"]
NoJob == [t |-> "undefined"]
Handled == [t |-> "handled"]
NoResponse == [t |-> "none"]

\* The WebSocket connections clients open.
Conns == {"c1", "c2"}

NoSender == [t |-> "undefined"]
NoSocket == [state |-> "new"]

-----------------------------------------------------------------------------
(* db.ts *)

DbError == Err("connection refused")

\* saveOrder: INSERT ... ON CONFLICT (id) DO UPDATE SET payload, status.
saveOrder(d, id, payload, status) ==
  [d EXCEPT ![id] =
     IF @ = NoRow
       THEN [payload |-> payload, status |-> status, last_error |-> Undefined]
       ELSE [@ EXCEPT !.payload = payload, !.status = status]]

\* updateOrderStatus: UPDATE orders SET status, last_error WHERE id; a row that
\* does not exist is not created.
updateOrderStatus(d, id, status, lastError) ==
  [d EXCEPT ![id] =
     IF @ = NoRow THEN @ ELSE [@ EXCEPT !.status = status, !.last_error = lastError]]

-----------------------------------------------------------------------------
(* orderWorker.ts: processOrder *)

\* The activation before processOrder is called.
Idle ==
  [pc |-> "idle", data |-> Undefined, emits |-> <<>>, r |-> NotCalled, m |-> NotCalled,
   chosen |-> Undefined, other |-> Undefined, exec |-> NotCalled,
   err |-> Undefined, result |-> NotCalled]

\* const reason = err?.message || String(err)
Reason(e) == IF e.message # "" THEN e.message ELSE String(e)

\* emitFn(orderId, payload)
emit(a, payload) == [a EXCEPT !.emits = Append(@, payload)]

\* A catch block that rethrows without emitting the failed event.
catch_rethrow(a, e) == [a EXCEPT !.err = e, !.pc = "await_failed"]

\* The catch block up to its await: the failed event is emitted.
catch(a, e) ==
  [emit(a, [status |-> "failed", error |-> Reason(e)])
     EXCEPT !.err = e, !.pc = "await_failed"]

\* A router that takes the higher price.
Chosen_higher(r, m) == IF r.price >= m.price THEN r ELSE m

\* const chosen = r.price <= m.price ? r : m
Chosen(r, m) == IF r.price <= m.price THEN r ELSE m

\* Both quotes are in: the routing decision and its event.
routed(a) ==
  LET chosen == Chosen(a.r.value, a.m.value) IN
  [emit(a, [status |-> "routing", chosen |-> chosen.dex, price |-> chosen.price])
     EXCEPT !.chosen = chosen, !.pc = "await_routing"]

\* A join that routes on the first quote to come in.
promiseAll_race(a, settled) ==
  IF a.pc # "await_quotes" THEN a
  ELSE IF settled.state = "rejected" THEN catch(a, settled.reason)
  ELSE [emit(a, [status |-> "routing", chosen |-> settled.value.dex,
                 price |-> settled.value.price])
          EXCEPT !.chosen = settled.value, !.pc = "await_routing"]

\* A Promise.all that never rejects: a rejection among its promises is ignored.
promiseAll_swallow(a, settled) ==
  IF a.pc # "await_quotes" THEN a
  ELSE IF a.r.state = "fulfilled" /\ a.m.state = "fulfilled" THEN routed(a)
  ELSE a

\* Promise.all([r, m]) as seen by the engine when one of the two settles: it
\* rejects with the first rejection and fulfils when both are fulfilled.
promiseAll(a, settled) ==
  IF a.pc # "await_quotes" THEN a
  ELSE IF settled.state = "rejected" THEN catch(a, settled.reason)
  ELSE IF a.r.state = "fulfilled" /\ a.m.state = "fulfilled" THEN routed(a)
  ELSE a

\* The activation as processOrder is entered, up to its first await: the pending
\* event is emitted and updateOrderStatus(orderId, 'pending') is in flight.
entered(data) ==
  [emit(Idle, [status |-> "pending"]) EXCEPT !.data = data, !.pc = "await_pending"]

\* await updateOrderStatus(orderId, 'pending') settles.
PendingPersisted(id) ==
  /\ proc[id].pc = "await_pending"
  /\ \E ok \in BOOLEAN :
       /\ db' = IF ok THEN updateOrderStatus(db, id, "pending", Undefined) ELSE db
       /\ proc' = [proc EXCEPT ![id] =
            IF ok
              THEN [emit(@, [status |-> "routing"])
                      EXCEPT !.r = Unsettled, !.m = Unsettled, !.pc = "await_quotes"]
              ELSE catch(@, DbError)]
  /\ UNCHANGED <<request, response, jobs, swaps, now, cache, faults, wsClients, sockets>>

\* dex.getRaydiumQuote(...) settles.
RaydiumSettles(id) ==
  /\ proc[id].r = Unsettled
  /\ \E p \in {Fulfilled(q) : q \in RaydiumQuotes} \cup {Rejected(e) : e \in QuoteErrors} :
       proc' = [proc EXCEPT ![id] = promiseAll([@ EXCEPT !.r = p], p)]
  /\ UNCHANGED <<request, response, db, jobs, swaps, now, cache, faults, wsClients, sockets>>

\* dex.getMeteoraQuote(...) settles.
MeteoraSettles(id) ==
  /\ proc[id].m = Unsettled
  /\ \E p \in {Fulfilled(q) : q \in MeteoraQuotes} \cup {Rejected(e) : e \in QuoteErrors} :
       proc' = [proc EXCEPT ![id] = promiseAll([@ EXCEPT !.m = p], p)]
  /\ UNCHANGED <<request, response, db, jobs, swaps, now, cache, faults, wsClients, sockets>>

\* await updateOrderStatus(orderId, 'routing') settles.
RoutingPersisted(id) ==
  /\ proc[id].pc = "await_routing"
  /\ \E ok \in BOOLEAN :
       /\ db' = IF ok THEN updateOrderStatus(db, id, "routing", Undefined) ELSE db
       /\ proc' = [proc EXCEPT ![id] =
            IF ok
              THEN [emit(@, [status |-> "building"]) EXCEPT !.pc = "await_sleep"]
              ELSE catch(@, DbError)]
  /\ UNCHANGED <<request, response, jobs, swaps, now, cache, faults, wsClients, sockets>>

\* await new Promise((s) => setTimeout(s, 200)) settles.
BuildingDelay(id) ==
  /\ proc[id].pc = "await_sleep"
  /\ proc' = [proc EXCEPT ![id].pc = "await_building"]
  /\ UNCHANGED <<request, response, db, jobs, swaps, now, cache, faults, wsClients, sockets>>

\* await updateOrderStatus(orderId, 'building') settles.
BuildingPersisted(id) ==
  /\ proc[id].pc = "await_building"
  /\ \E ok \in BOOLEAN :
       /\ db' = IF ok THEN updateOrderStatus(db, id, "building", Undefined) ELSE db
       /\ proc' = [proc EXCEPT ![id] =
            IF ok
              THEN [emit(@, [status |-> "submitted"])
                      EXCEPT !.exec = Unsettled, !.pc = "await_exec"]
              ELSE catch(@, DbError)]
  /\ UNCHANGED <<request, response, jobs, swaps, now, cache, faults, wsClients, sockets>>

\* Every identifier uuidv4() has issued.
IssuedUuids ==
  {id \in Uuids : db[id] # NoRow} \cup {swaps[i].txHash : i \in 1..Len(swaps)}

\* await dex.executeSwap(chosen.dex, data) returns a SwapResult.
SwapReturns(id) ==
  /\ proc[id].pc = "await_exec"
  /\ \E n \in SwapDraws :
       LET res == executeSwap(proc[id].chosen.dex, n, uuidv4(IssuedUuids)) IN
       /\ proc' = [proc EXCEPT ![id].exec = Fulfilled(res), ![id].pc = "await_submitted"]
       /\ swaps' = Append(swaps, [id |-> id, txHash |-> res.txHash])
  /\ UNCHANGED <<request, response, db, jobs, now, cache, faults, wsClients, sockets>>

\* await dex.executeSwap(chosen.dex, data) throws.
SwapThrows(id) ==
  /\ proc[id].pc = "await_exec"
  /\ \E e \in SwapErrors :
       proc' = [proc EXCEPT ![id] = catch([@ EXCEPT !.exec = Rejected(e)], e)]
  /\ UNCHANGED <<request, response, db, jobs, swaps, now, cache, faults, wsClients, sockets>>

\* await updateOrderStatus(orderId, 'submitted') settles.
SubmittedPersisted(id) ==
  /\ proc[id].pc = "await_submitted"
  /\ \E ok \in BOOLEAN :
       /\ db' = IF ok THEN updateOrderStatus(db, id, "submitted", Undefined) ELSE db
       /\ proc' = [proc EXCEPT ![id] =
            IF ok
              THEN [emit(@, [status |-> "confirmed",
                             txHash |-> proc[id].exec.value.txHash,
                             executedPrice |-> proc[id].exec.value.executedPrice])
                      EXCEPT !.pc = "await_confirmed"]
              ELSE catch(@, DbError)]
  /\ UNCHANGED <<request, response, jobs, swaps, now, cache, faults, wsClients, sockets>>

\* await updateOrderStatus(orderId, 'confirmed') settles; return { txHash }.
ConfirmedPersisted(id) ==
  /\ proc[id].pc = "await_confirmed"
  /\ \E ok \in BOOLEAN :
       /\ db' = IF ok THEN updateOrderStatus(db, id, "confirmed", Undefined) ELSE db
       /\ proc' = [proc EXCEPT ![id] =
            IF ok
              THEN [@ EXCEPT !.result = Fulfilled([txHash |-> proc[id].exec.value.txHash]),
                             !.pc = "done"]
              ELSE catch(@, DbError)]
  /\ UNCHANGED <<request, response, jobs, swaps, now, cache, faults, wsClients, sockets>>

\* In the catch block, await updateOrderStatus(orderId, 'failed', reason)
\* settles; throw err.
FailedPersisted(id) ==
  /\ proc[id].pc = "await_failed"
  /\ \E ok \in BOOLEAN :
       /\ db' = IF ok THEN updateOrderStatus(db, id, "failed", Str(Reason(proc[id].err)))
                      ELSE db
       /\ proc' = [proc EXCEPT ![id].result =
                                Rejected(IF ok THEN proc[id].err ELSE DbError),
                              ![id].pc = "done"]
  /\ UNCHANGED <<request, response, jobs, swaps, now, cache, faults, wsClients, sockets>>

-----------------------------------------------------------------------------
(* server.ts: POST /api/orders/execute; orderQueue.ts; the Worker *)

\* The request bodies a client may send.
Bodies ==
  {Undefined} \cup
  [t : {"object"},
   type : {Str("market"), Str("limit")},
   tokenIn : {Undefined, Str(""), Str("SOL")},
   tokenOut : {Undefined, Str("SOL"), Str("USDC")},
   amountIn : {Undefined, Num(0), Num(-5), Num(100)}]

\* !body || body.type !== 'market' || !body.tokenIn || !body.tokenOut || !body.amountIn
invalid(body) ==
  \/ body = Undefined
  \/ body.type # Str("market")
  \/ ~Truthy(body.tokenIn)
  \/ ~Truthy(body.tokenOut)
  \/ ~Truthy(body.amountIn)

\* A well-formed market order.
MarketOrder ==
  [t |-> "object", type |-> Str("market"), tokenIn |-> Str("SOL"),
   tokenOut |-> Str("USDC"), amountIn |-> Num(100)]

attempts == 3

\* backoff: { type: 'exponential', delay: 500 }: the delay before the retry
\* that follows the attemptsMade-th failed attempt, in ms.
backoffDelay == 500
backoff(attemptsMade) == backoffDelay * 2 ^ (attemptsMade - 1)

\* orderQueue.add(jobId, payload, {attempts, backoff, ...}): the first argument
\* is the job's name; the queue numbers the job.
addOrder(q, jobId, payload) ==
  LET k == CHOOSE k \in DOMAIN BullIdSeq :
             /\ q[BullIdSeq[k]] = NoJob
             /\ \A j \in 1..(k - 1) : q[BullIdSeq[j]] # NoJob
      id == BullIdSeq[k] IN
  [q EXCEPT ![id] = [name |-> jobId, data |-> payload, attemptsMade |-> 0,
                     state |-> "waiting", delay |-> 0]]

\* The POST handler. saveOrder or addOrder may throw, and fastify then answers
\* 500.
Submit ==
  /\ request # Handled
  /\ request' = Handled
  /\ IF invalid(request)
       THEN /\ response' = [code |-> 400]
            /\ UNCHANGED <<db, jobs, faults>>
       ELSE LET orderId == uuidv4(IssuedUuids) IN
            \E saved \in BOOLEAN, added \in BOOLEAN :
              /\ db' = IF saved THEN saveOrder(db, orderId, request, "queued") ELSE db
              /\ jobs' = IF saved /\ added THEN addOrder(jobs, orderId, request) ELSE jobs
              /\ response' = IF saved /\ added
                               THEN [code |-> 200, orderId |-> orderId]
                               ELSE [code |-> 500]
  /\ UNCHANGED <<proc, swaps, now, cache, faults, wsClients, sockets>>

\* The Worker takes a waiting job: async (job) => processOrder(job.data, job.id).
WorkerTakes(id) ==
  /\ jobs[id] # NoJob
  /\ jobs[id].state = "waiting"
  /\ jobs' = [jobs EXCEPT ![id].state = "active"]
  /\ proc' = [proc EXCEPT ![id] = entered(jobs[id].data)]
  /\ UNCHANGED <<request, response, db, swaps, now, cache, faults, wsClients, sockets>>

\* A queue that retries a failed job without end.
JobSettles_retries(id) ==
  /\ jobs[id] # NoJob
  /\ jobs[id].state = "active"
  /\ proc[id].pc = "done"
  /\ jobs' = [jobs EXCEPT ![id] =
       IF proc[id].result.state = "fulfilled" THEN NoJob
       ELSE [@ EXCEPT !.attemptsMade = IF @ < attempts THEN @ + 1 ELSE @,
                      !.state = "delayed"]]
  /\ UNCHANGED <<request, response, db, proc, swaps, now, cache, faults, wsClients, sockets>>

\* processOrder has settled: the job completes (removeOnComplete: true), or its
\* attempt has failed: it is retried after the backoff while attempts remain
\* (removeOnFail: false).
JobSettles(id) ==
  /\ jobs[id] # NoJob
  /\ jobs[id].state = "active"
  /\ proc[id].pc = "done"
  /\ jobs' = [jobs EXCEPT ![id] =
       IF proc[id].result.state = "fulfilled" THEN NoJob
       ELSE [@ EXCEPT !.attemptsMade = @ + 1,
                      !.state = IF jobs[id].attemptsMade + 1 < attempts
                                  THEN "delayed" ELSE "failed",
                      !.delay = IF jobs[id].attemptsMade + 1 < attempts
                                  THEN backoff(jobs[id].attemptsMade + 1) ELSE 0]]
  /\ UNCHANGED <<request, response, db, proc, swaps, now, cache, faults, wsClients, sockets>>

\* The backoff delay of a failed attempt has passed.
BackoffElapses(id) ==
  /\ jobs[id] # NoJob
  /\ jobs[id].state = "delayed"
  /\ jobs' = [jobs EXCEPT ![id].state = "waiting"]
  /\ UNCHANGED <<request, response, db, proc, swaps, now, cache, faults, wsClients, sockets>>

-----------------------------------------------------------------------------
(* The TypeScript deployment *)

NoCache == [entries |-> [id \in Ids |-> NoEntry], active |-> {}]

Init ==
  /\ request \in Bodies
  /\ response = NoResponse
  /\ db = [id \in Ids |-> NoRow]
  /\ jobs = [id \in Ids |-> NoJob]
  /\ proc = [id \in Ids |-> Idle]
  /\ swaps = <<>>
  /\ now = 0
  /\ cache = NoCache
  /\ faults = 0
  /\ wsClients = [id \in Ids |-> NoSender]
  /\ sockets = [c \in Conns |-> NoSocket]

Next ==
  \/ Submit
  \/ \E id \in Ids :
       \/ WorkerTakes(id)
       \/ PendingPersisted(id)
       \/ RaydiumSettles(id)
       \/ MeteoraSettles(id)
       \/ RoutingPersisted(id)
       \/ BuildingDelay(id)
       \/ BuildingPersisted(id)
       \/ SwapReturns(id)
       \/ SwapThrows(id)
       \/ SubmittedPersisted(id)
       \/ ConfirmedPersisted(id)
       \/ FailedPersisted(id)
       \/ JobSettles(id)
       \/ BackoffElapses(id)

Spec == Init /\ [][Next]_vars

\* A step of the run of processOrder for id: one of its awaits settles. Every
\* await of the engine is on a call that completes or on a timer.
Step(id) ==
  \/ PendingPersisted(id)
  \/ RaydiumSettles(id)
  \/ MeteoraSettles(id)
  \/ RoutingPersisted(id)
  \/ BuildingDelay(id)
  \/ BuildingPersisted(id)
  \/ SwapReturns(id)
  \/ SwapThrows(id)
  \/ SubmittedPersisted(id)
  \/ ConfirmedPersisted(id)
  \/ FailedPersisted(id)

\* The deployment when the calls a run awaits eventually complete.
SpecFair == Init /\ [][Next]_vars /\ \A id \in Ids : WF_vars(Step(id))

\* The router by itself, as mockDex.test.ts uses it: a MockDexRouter is
\* constructed and its quote methods are called with some tokens and amount.
\* The draws of Math.random() * 0.04 and Math.random() * 0.05 here include the
\* ends of their ranges.
RaydiumNoise == {0, 1, 20000, 39999}
MeteoraNoise == {0, 1, 25000, 49999}

QuoteArgs ==
  [tokenIn : {Str("A"), Str("SOL")}, tokenOut : {Str("B"), Str("SOL")},
   amount : {Num(0), Num(-5), Num(1000)}]

DexInit ==
  /\ request = Handled
  /\ response = NoResponse
  /\ db = [id \in Ids |-> NoRow]
  /\ jobs = [id \in Ids |-> NoJob]
  /\ \E args \in QuoteArgs :
       proc = [id \in Ids |-> IF id = "u1" THEN [Idle EXCEPT !.data = args] ELSE Idle]
  /\ swaps = <<>>
  /\ now = 0
  /\ cache = NoCache
  /\ faults = 0
  /\ wsClients = [id \in Ids |-> NoSender]
  /\ sockets = [c \in Conns |-> NoSocket]

\* await dex.getRaydiumQuote(tokenIn, tokenOut, amount)
DexRaydiumQuote ==
  /\ \E x \in RaydiumNoise :
       proc' = [proc EXCEPT !["u1"].r = Fulfilled(getRaydiumQuote(x))]
  /\ UNCHANGED <<request, response, db, jobs, swaps, now, cache, faults, wsClients, sockets>>

\* await dex.getMeteoraQuote(tokenIn, tokenOut, amount)
DexMeteoraQuote ==
  /\ \E y \in MeteoraNoise :
       proc' = [proc EXCEPT !["u1"].m = Fulfilled(getMeteoraQuote(y))]
  /\ UNCHANGED <<request, response, db, jobs, swaps, now, cache, faults, wsClients, sockets>>

DexNext == DexRaydiumQuote \/ DexMeteoraQuote

SpecDex == DexInit /\ [][DexNext]_vars

\* The queue module by itself: addOrder, which orderQueue.ts exports, is called
\* with an order id and a payload, and the worker takes the jobs.
AddOrder(orderId, payload) ==
  /\ \E b \in BullIds : jobs[b] = NoJob
  /\ jobs' = addOrder(jobs, orderId, payload)
  /\ UNCHANGED <<request, response, db, proc, swaps, now, cache, faults, wsClients, sockets>>

QueueInit == Init /\ request = MarketOrder

QueueNext ==
  \/ \E orderId \in {"u1", "u2"}, payload \in {b \in Bodies : ~invalid(b)} :
       AddOrder(orderId, payload)
  \/ \E id \in BullIds : WorkerTakes(id)

SpecQueue == QueueInit /\ [][QueueNext]_vars

-----------------------------------------------------------------------------
(* server.js, worker.js: identifiers and the execution simulator *)

MaxTime == 1

\* At most MaxFaults calls of the database, cache and queue adapters fail.
MaxFaults == 1

Failures(oks) == Cardinality({i \in DOMAIN oks : ~oks[i]})

\* crypto.randomBytes(4).toString('hex'): values of the 2^32.
HexDraws == {"00000000", "ffffffff"}

\* uuidv4() of server.js and the txHash of worker.js:
\* `${Date.now()}-${crypto.randomBytes(4).toString('hex')}`
jsUuidv4(t, hex) == ToString(t) \o "-" \o hex

JsIds == {jsUuidv4(t, hex) : t \in 0..MaxTime, hex \in HexDraws}

\* MockDexRouter.executeSwap of worker.js.
jsExecuteSwap(dex, n, t, hex) ==
  [txHash |-> jsUuidv4(t, hex), executedPrice |-> executedPrice(dex, n)]

\* Number.prototype.toFixed(2): the price rounded to cents.
toFixed2(p) == [t |-> "string", cents |-> (p + 5000) \div 10000]

\* txHash.substring(0, 24) + '...'
abbreviated(txHash) ==
  (IF Len(txHash) <= 24 THEN txHash ELSE SubSeq(txHash, 1, 24)) \o "..."

\* Date.now(): the clock does not run backwards.
DateNow(t) == t..MaxTime

-----------------------------------------------------------------------------
(* lib/db-client.js, lib/active-orders.js: every function swallows its error *)

RedisError == Err("redis unavailable")

\* saveOrder: INSERT INTO orders (id, payload, status) VALUES (.., 'pending');
\* a duplicate key is an error, which is swallowed.
jsSaveOrder(d, id, payload) ==
  [d EXCEPT ![id] =
     IF @ = NoRow
       THEN [payload |-> payload, status |-> "pending", dex_chosen |-> Undefined,
             quote_price |-> Undefined, executed_price |-> Undefined,
             tx_hash |-> Undefined, last_error |-> Undefined]
       ELSE @]

\* details.<field>, undefined when the details do not hold it.
field(details, f) == IF f \in DOMAIN details THEN details[f] ELSE Undefined

\* details.<field> for a field that holds text.
text(details, f) == IF f \in DOMAIN details THEN Str(details[f]) ELSE Undefined

\* updateOrderStatus: UPDATE orders SET status, dex_chosen, quote_price,
\* executed_price, tx_hash WHERE id.
jsUpdateOrderStatus(d, id, status, details) ==
  [d EXCEPT ![id] =
     IF @ = NoRow THEN @
     ELSE [@ EXCEPT !.status = status,
                    !.dex_chosen = text(details, "dex"),
                    !.quote_price = field(details, "price"),
                    !.executed_price = field(details, "executedPrice"),
                    !.tx_hash = text(details, "txHash")]]

\* recordOrderError: UPDATE orders SET status = 'failed', last_error WHERE id.
recordOrderError(d, id, error) ==
  [d EXCEPT ![id] =
     IF @ = NoRow THEN @ ELSE [@ EXCEPT !.status = "failed", !.last_error = Str(error)]]

\* {...a, ...b}
spread(a, b) ==
  [f \in DOMAIN a \cup DOMAIN b |-> IF f \in DOMAIN b THEN b[f] ELSE a[f]]

\* setActiveOrder: setex(order:<id>, ...) and sadd(active_orders, id). The
\* timestamp and lastUpdate fields of an entry, which nothing reads, are not kept.
setActiveOrder(c, id, orderData) ==
  [entries |-> [c.entries EXCEPT ![id] = orderData], active |-> c.active \cup {id}]

\* updateActiveOrderStatus: the entry, when there is one, with the status and
\* the details merged onto it.
updateActiveOrderStatus(c, id, status, details) ==
  IF c.entries[id] = NoEntry THEN c
  ELSE [c EXCEPT !.entries[id] = spread(spread(@, [status |-> status]), details)]

\* removeActiveOrder: del(order:<id>) and srem(active_orders, id).
removeActiveOrder(c, id) ==
  [entries |-> [c.entries EXCEPT ![id] = NoEntry], active |-> c.active \ {id}]

-----------------------------------------------------------------------------
(* worker.js: emitStatus, processOrder *)

\* emitStatus(orderId, status, details): the cache and the database are
\* updated, each unless its call fails, and neither failure is thrown on.
emitStatusCache(c, id, status, details, cacheOk) ==
  IF cacheOk THEN updateActiveOrderStatus(c, id, status, details) ELSE c

emitStatusDb(d, id, status, details, dbOk) ==
  IF dbOk THEN jsUpdateOrderStatus(d, id, status, details) ELSE d

\* The status event of an emitStatus call: the status and its details.
statusEvent(status, details) == spread([status |-> status], details)

\* const chosen = r.price <= m.price ? r : m
jsChosen(r, m) == IF r.price <= m.price THEN r ELSE m

\* An other quote decided with a strict comparison.
jsOther_strict(r, m) == IF r.price < m.price THEN m ELSE r

\* const other = r.price <= m.price ? m : r
jsOther(r, m) == IF r.price <= m.price THEN m ELSE r

\* The catch block is entered with err.
jsCatch(a, e) == [a EXCEPT !.err = e, !.pc = "js_failed"]

\* Promise.all([r, m]) of worker.js when one of the two settles; with both
\* quotes in, chosen and other are decided.
jsPromiseAll(a, settled) ==
  IF a.pc # "js_quotes" THEN a
  ELSE IF settled.state = "rejected" THEN jsCatch(a, settled.reason)
  ELSE IF a.r.state = "fulfilled" /\ a.m.state = "fulfilled"
    THEN [a EXCEPT !.chosen = jsChosen(a.r.value, a.m.value),
                   !.other = jsOther(a.r.value, a.m.value),
                   !.pc = "js_routing"]
  ELSE a

\* One stage of processOrder: await emitStatus(orderId, status, details), then
\* await job.updateProgress(progress), which throws when Redis fails.
stage(id, status, details, progress, next) ==
  \E cacheOk \in BOOLEAN, dbOk \in BOOLEAN, progressOk \in BOOLEAN :
    /\ faults' = faults + Failures(<<cacheOk, dbOk, progressOk>>)
    /\ faults' <= MaxFaults
    /\ cache' = emitStatusCache(cache, id, status, details, cacheOk)
    /\ db' = emitStatusDb(db, id, status, details, dbOk)
    /\ jobs' = IF progressOk THEN [jobs EXCEPT ![id].progress = progress] ELSE jobs
    /\ proc' = [proc EXCEPT ![id] =
         IF progressOk
           THEN [emit(@, statusEvent(status, details)) EXCEPT !.pc = next]
           ELSE jsCatch(emit(@, statusEvent(status, details)), RedisError)]

\* Stage 1: emitStatus('pending'), updateProgress(20); the quotes are requested.
JsPending(id) ==
  /\ proc[id].pc = "js_pending"
  /\ \E cacheOk \in BOOLEAN, dbOk \in BOOLEAN, progressOk \in BOOLEAN :
       /\ faults' = faults + Failures(<<cacheOk, dbOk, progressOk>>)
       /\ faults' <= MaxFaults
       /\ cache' = emitStatusCache(cache, id, "pending", <<>>, cacheOk)
       /\ db' = emitStatusDb(db, id, "pending", <<>>, dbOk)
       /\ jobs' = IF progressOk THEN [jobs EXCEPT ![id].progress = 20] ELSE jobs
       /\ proc' = [proc EXCEPT ![id] =
            IF progressOk
              THEN [emit(@, statusEvent("pending", <<>>))
                      EXCEPT !.r = Unsettled, !.m = Unsettled, !.pc = "js_quotes"]
              ELSE jsCatch(emit(@, statusEvent("pending", <<>>)), RedisError)]
  /\ UNCHANGED <<request, response, swaps, now, wsClients, sockets>>

JsRaydiumSettles(id) ==
  /\ proc[id].r = Unsettled
  /\ \E p \in {Fulfilled(getRaydiumQuote(x)) : x \in RaydiumDraws}
                \cup {Rejected(e) : e \in QuoteErrors} :
       proc' = [proc EXCEPT ![id] = jsPromiseAll([@ EXCEPT !.r = p], p)]
  /\ UNCHANGED <<request, response, db, jobs, swaps, now, cache, faults, wsClients, sockets>>

JsMeteoraSettles(id) ==
  /\ proc[id].m = Unsettled
  /\ \E p \in {Fulfilled(getMeteoraQuote(y)) : y \in MeteoraDraws}
                \cup {Rejected(e) : e \in QuoteErrors} :
       proc' = [proc EXCEPT ![id] = jsPromiseAll([@ EXCEPT !.m = p], p)]
  /\ UNCHANGED <<request, response, db, jobs, swaps, now, cache, faults, wsClients, sockets>>

\* Stage 2: emitStatus('routing', {dex, price}), updateProgress(40).
JsRouting(id) ==
  /\ proc[id].pc = "js_routing"
  /\ stage(id, "routing",
           [dex |-> proc[id].chosen.dex, price |-> toFixed2(proc[id].chosen.price)],
           40, "js_sleep")
  /\ UNCHANGED <<request, response, swaps, now, wsClients, sockets>>

\* await sleep(200)
JsSleep(id) ==
  /\ proc[id].pc = "js_sleep"
  /\ proc' = [proc EXCEPT ![id].pc = "js_building"]
  /\ UNCHANGED <<request, response, db, jobs, swaps, now, cache, faults, wsClients, sockets>>

\* Stage 3: emitStatus('building'), updateProgress(60); executeSwap is called.
JsBuilding(id) ==
  /\ proc[id].pc = "js_building"
  /\ \E cacheOk \in BOOLEAN, dbOk \in BOOLEAN, progressOk \in BOOLEAN :
       /\ faults' = faults + Failures(<<cacheOk, dbOk, progressOk>>)
       /\ faults' <= MaxFaults
       /\ cache' = emitStatusCache(cache, id, "building", <<>>, cacheOk)
       /\ db' = emitStatusDb(db, id, "building", <<>>, dbOk)
       /\ jobs' = IF progressOk THEN [jobs EXCEPT ![id].progress = 60] ELSE jobs
       /\ proc' = [proc EXCEPT ![id] =
            IF progressOk
              THEN [emit(@, statusEvent("building", <<>>))
                      EXCEPT !.exec = Unsettled, !.pc = "js_exec"]
              ELSE jsCatch(emit(@, statusEvent("building", <<>>)), RedisError)]
  /\ UNCHANGED <<request, response, swaps, now, wsClients, sockets>>

\* await dex.executeSwap(chosen.dex, data) returns.
JsSwapReturns(id) ==
  /\ proc[id].pc = "js_exec"
  /\ \E n \in SwapDraws, hex \in HexDraws, t \in DateNow(now) :
       LET res == jsExecuteSwap(proc[id].chosen.dex, n, t, hex) IN
       /\ now' = t
       /\ proc' = [proc EXCEPT ![id].exec = Fulfilled(res), ![id].pc = "js_submitted"]
       /\ swaps' = Append(swaps, [id |-> id, txHash |-> res.txHash])
  /\ UNCHANGED <<request, response, db, jobs, cache, faults, wsClients, sockets>>

\* await dex.executeSwap(chosen.dex, data) throws.
JsSwapThrows(id) ==
  /\ proc[id].pc = "js_exec"
  /\ \E e \in SwapErrors :
       proc' = [proc EXCEPT ![id] = jsCatch([@ EXCEPT !.exec = Rejected(e)], e)]
  /\ UNCHANGED <<request, response, db, jobs, swaps, now, cache, faults, wsClients, sockets>>

\* Stage 4: emitStatus('submitted', {txHash}), updateProgress(80).
JsSubmitted(id) ==
  /\ proc[id].pc = "js_submitted"
  /\ stage(id, "submitted", [txHash |-> abbreviated(proc[id].exec.value.txHash)],
           80, "js_confirmed")
  /\ UNCHANGED <<request, response, swaps, now, wsClients, sockets>>

\* Stage 5: emitStatus('confirmed', {txHash, executedPrice}),
\* removeActiveOrder, updateProgress(100); return { success, txHash }.
JsConfirmed(id) ==
  /\ proc[id].pc = "js_confirmed"
  /\ LET details == [txHash |-> proc[id].exec.value.txHash,
                     executedPrice |-> toFixed2(proc[id].exec.value.executedPrice)]
         ev == statusEvent("confirmed", details) IN
     \E cacheOk \in BOOLEAN, dbOk \in BOOLEAN, removeOk \in BOOLEAN, progressOk \in BOOLEAN :
       /\ faults' = faults + Failures(<<cacheOk, dbOk, removeOk, progressOk>>)
       /\ faults' <= MaxFaults
       /\ cache' = LET c == emitStatusCache(cache, id, "confirmed", details, cacheOk) IN
                   IF removeOk THEN removeActiveOrder(c, id) ELSE c
       /\ db' = emitStatusDb(db, id, "confirmed", details, dbOk)
       /\ jobs' = IF progressOk THEN [jobs EXCEPT ![id].progress = 100] ELSE jobs
       /\ proc' = [proc EXCEPT ![id] =
            IF progressOk
              THEN [emit(@, ev) EXCEPT
                      !.result = Fulfilled([success |-> TRUE,
                                            txHash |-> proc[id].exec.value.txHash]),
                      !.pc = "done"]
              ELSE jsCatch(emit(@, ev), RedisError)]
  /\ UNCHANGED <<request, response, swaps, now, wsClients, sockets>>

\* The catch block: emitStatus('failed', {error}), recordOrderError,
\* removeActiveOrder; throw err.
JsFailed(id) ==
  /\ proc[id].pc = "js_failed"
  /\ LET details == [error |-> proc[id].err.message] IN
     \E cacheOk \in BOOLEAN, dbOk \in BOOLEAN, recordOk \in BOOLEAN, removeOk \in BOOLEAN :
       /\ faults' = faults + Failures(<<cacheOk, dbOk, recordOk, removeOk>>)
       /\ faults' <= MaxFaults
       /\ cache' = LET c == emitStatusCache(cache, id, "failed", details, cacheOk) IN
                   IF removeOk THEN removeActiveOrder(c, id) ELSE c
       /\ db' = LET d == emitStatusDb(db, id, "failed", details, dbOk) IN
                IF recordOk THEN recordOrderError(d, id, proc[id].err.message) ELSE d
       /\ proc' = [proc EXCEPT ![id] =
            [emit(@, statusEvent("failed", details))
               EXCEPT !.result = Rejected(proc[id].err), !.pc = "done"]]
  /\ UNCHANGED <<request, response, jobs, swaps, now, wsClients, sockets>>

-----------------------------------------------------------------------------
(* server.js: POST /api/orders/execute; the Worker of worker.js *)

\* An add that loses the job.
jsAdd_lost(q, orderId, data) == q

\* orderQueue.add('order', data, {jobId: orderId, attempts: 3, ...}); a job
\* whose id is in the queue already is not added again.
jsAdd(q, orderId, data) ==
  [q EXCEPT ![orderId] =
     IF @ = NoJob
       THEN [name |-> "order", data |-> data, attemptsMade |-> 0,
             state |-> "waiting", delay |-> 0, progress |-> 0]
       ELSE @]

\* The POST handler of server.js. saveOrder and setActiveOrder swallow their
\* errors; orderQueue.add may throw, and the handler then answers 400.
JsSubmit ==
  /\ request # Handled
  /\ request' = Handled
  /\ IF invalid(request)
       THEN /\ response' = [code |-> 400]
            /\ UNCHANGED <<db, cache, jobs, now, faults>>
       ELSE \E t \in DateNow(now), hex \in HexDraws,
               saved \in BOOLEAN, cached \in BOOLEAN, added \in BOOLEAN :
              LET orderId == jsUuidv4(t, hex) IN
              /\ now' = t
              /\ faults' = faults + Failures(<<saved, cached, added>>)
              /\ faults' <= MaxFaults
              /\ db' = IF saved THEN jsSaveOrder(db, orderId, request) ELSE db
              /\ cache' = IF cached
                            THEN setActiveOrder(cache, orderId,
                                   [type |-> request.type, tokenIn |-> request.tokenIn,
                                    tokenOut |-> request.tokenOut,
                                    amountIn |-> request.amountIn])
                            ELSE cache
              /\ jobs' = IF added THEN jsAdd(jobs, orderId, request) ELSE jobs
              /\ response' = IF added THEN [code |-> 200, orderId |-> orderId]
                                      ELSE [code |-> 400]
  /\ UNCHANGED <<proc, swaps, wsClients, sockets>>

\* new Worker('order-queue', processOrder, ...): the worker takes a waiting job
\* and calls processOrder(job), which runs up to its first await.
JsWorkerTakes(id) ==
  /\ jobs[id] # NoJob
  /\ jobs[id].state = "waiting"
  /\ jobs' = [jobs EXCEPT ![id].state = "active"]
  /\ proc' = [proc EXCEPT ![id] = [Idle EXCEPT !.data = jobs[id].data, !.pc = "js_pending"]]
  /\ UNCHANGED <<request, response, db, swaps, now, cache, faults, wsClients, sockets>>

-----------------------------------------------------------------------------
(* The JavaScript deployment *)

JsInit ==
  /\ request \in Bodies
  /\ response = NoResponse
  /\ db = [id \in JsIds |-> NoRow]
  /\ jobs = [id \in JsIds |-> NoJob]
  /\ proc = [id \in JsIds |-> Idle]
  /\ swaps = <<>>
  /\ now = 0
  /\ cache = [entries |-> [id \in JsIds |-> NoEntry], active |-> {}]
  /\ faults = 0
  /\ wsClients = [id \in JsIds |-> NoSender]
  /\ sockets = [c \in Conns |-> NoSocket]

JsNext ==
  \/ JsSubmit
  \/ \E id \in JsIds :
       \/ JsWorkerTakes(id)
       \/ JsPending(id)
       \/ JsRaydiumSettles(id)
       \/ JsMeteoraSettles(id)
       \/ JsRouting(id)
       \/ JsSleep(id)
       \/ JsBuilding(id)
       \/ JsSwapReturns(id)
       \/ JsSwapThrows(id)
       \/ JsSubmitted(id)
       \/ JsConfirmed(id)
       \/ JsFailed(id)
       \/ JobSettles(id)
       \/ BackoffElapses(id)

SpecJs == JsInit /\ [][JsNext]_vars

\* A client sends another POST /api/orders/execute once the last one was
\* answered.
JsPost ==
  /\ request = Handled
  /\ request' = MarketOrder
  /\ UNCHANGED <<response, db, jobs, proc, swaps, now, cache, faults, wsClients, sockets>>

\* The submissions of server.js by themselves: requests arrive one after the
\* other and no worker is running yet.
JsPostsNext == JsSubmit \/ JsPost

SpecJsPosts == JsInit /\ [][JsPostsNext]_vars

\* Redis expires the key order:<id> when its TTL (CACHE_TTL, set by every
\* setex) has run out; the set active_orders is another key and has no TTL.
Expire(id) ==
  /\ cache.entries[id] # NoEntry
  /\ cache' = [cache EXCEPT !.entries[id] = NoEntry]
  /\ UNCHANGED <<request, response, db, jobs, proc, swaps, now, faults, wsClients, sockets>>

\* The client submits a well-formed order.
JsOrderInit == JsInit /\ request = MarketOrder

\* The JavaScript deployment for a well-formed order while the worker process
\* is running: a job that waits is taken.
SpecJsFair ==
  /\ JsOrderInit
  /\ [][JsNext]_vars
  /\ WF_vars(\E id \in JsIds : JsWorkerTakes(id))

\* The JavaScript deployment for a well-formed order over a time in which
\* cache entries can expire.
JsTtlNext ==
  \/ JsNext
  \/ \E id \in JsIds : Expire(id)

SpecJsTtl == JsOrderInit /\ [][JsTtlNext]_vars

-----------------------------------------------------------------------------
(* The observer registry: server.on('upgrade') of server-standalone.js and of
   server.js, the websocket route of server.ts *)

\* A connection as the upgrade handler has registered it for orderId.
Opened(orderId) == [state |-> "open", orderId |-> orderId, inbox |-> <<>>]

\* A connection the handler has destroyed: the request had no orderId.
Refused == [state |-> "refused"]

\* The send function of connection c, as a value of the registry.
Sender(c) == [t |-> "function", socket |-> c]

\* const send = (msg) => { try { socket.write(frame(msg)) } catch (e) {} }
send(ss, c, msg) ==
  IF ss[c].state = "open" THEN [ss EXCEPT ![c].inbox = Append(@, msg)] ELSE ss

\* A client opens a connection with ?orderId=<id>, or without the parameter:
\* wsClients.set(orderId, send), or 400 and socket.destroy().
Upgrade(c) ==
  /\ sockets[c] = NoSocket
  /\ \/ /\ sockets' = [sockets EXCEPT ![c] = Refused]
        /\ UNCHANGED wsClients
     \/ \E orderId \in DOMAIN wsClients :
          /\ wsClients' = [wsClients EXCEPT ![orderId] = Sender(c)]
          /\ sockets' = [sockets EXCEPT ![c] = Opened(orderId)]
  /\ UNCHANGED <<request, response, db, jobs, proc, swaps, now, cache, faults>>

\* A close handler that also cancels the run of the order it was watching.
Close_cancels(c) ==
  /\ sockets[c].state = "open"
  /\ wsClients' = [wsClients EXCEPT ![sockets[c].orderId] = NoSender]
  /\ sockets' = [sockets EXCEPT ![c].state = "closed"]
  /\ proc' = [proc EXCEPT ![sockets[c].orderId] =
       IF @.pc \in {"idle", "done"} THEN @
       ELSE [@ EXCEPT !.err = Err("cancelled"), !.result = Rejected(Err("cancelled")),
                      !.pc = "done"]]
  /\ UNCHANGED <<request, response, db, jobs, swaps, now, cache, faults>>

\* socket.on('close') and socket.on('error'): wsClients.delete(orderId).
Close(c) ==
  /\ sockets[c].state = "open"
  /\ wsClients' = [wsClients EXCEPT ![sockets[c].orderId] = NoSender]
  /\ sockets' = [sockets EXCEPT ![c].state = "closed"]
  /\ UNCHANGED <<request, response, db, jobs, proc, swaps, now, cache, faults>>

\* The JavaScript deployment with a client's WebSocket connection to
\* server.js, for the submission of a well-formed order.
JsWsNext ==
  \/ JsNext
  \/ \E c \in {"c1"} : Upgrade(c) \/ Close(c)

SpecJsWs == JsOrderInit /\ [][JsWsNext]_vars

-----------------------------------------------------------------------------
(* server-standalone.js: processOrder *)

\* An emit that writes to every open connection, whatever order it asked for.
saEmit_all(ss, orderId, payload) ==
  [c \in DOMAIN ss |->
     IF ss[c].state = "open" THEN [ss[c] EXCEPT !.inbox = Append(@, payload)] ELSE ss[c]]

\* An emit that writes to every open connection that asked for orderId.
saEmit_broadcast(ss, orderId, payload) ==
  [c \in DOMAIN ss |->
     IF ss[c].state = "open" /\ ss[c].orderId = orderId
       THEN [ss[c] EXCEPT !.inbox = Append(@, payload)]
       ELSE ss[c]]

\* function emit(payload): the sender registered for orderId at this moment
\* is called with JSON.stringify(payload); without one the payload is dropped.
saEmit(ss, orderId, payload) ==
  IF wsClients[orderId] = NoSender
    THEN ss
    ELSE send(ss, wsClients[orderId].socket, payload)

\* exec.txHash.slice(0, 16) + '...'
sliced(txHash) ==
  (IF Len(txHash) <= 16 THEN txHash ELSE SubSeq(txHash, 1, 16)) \o "..."

Pending == [status |-> "pending"]
Routing == [status |-> "routing"]
Building == [status |-> "building"]
Submitted == [status |-> "submitted"]

\* { status: 'routing', chosen: chosen.dex, price: chosen.price.toFixed(2) }
saRouted(chosen) ==
  [status |-> "routing", chosen |-> chosen.dex, price |-> toFixed2(chosen.price)]

\* { status: 'confirmed', txHash, executedPrice }
saConfirmed(exec) ==
  [status |-> "confirmed", txHash |-> sliced(exec.txHash),
   executedPrice |-> toFixed2(exec.executedPrice)]

\* { status: 'failed', error: err?.message || String(err) }
saFailed(e) == [status |-> "failed", error |-> Reason(e)]

\* The catch block: the failed event is emitted and err is thrown on.
saCatch(id, a, e) ==
  /\ proc' = [proc EXCEPT ![id] =
       [emit(a, saFailed(e)) EXCEPT !.err = e, !.result = Rejected(e), !.pc = "done"]]
  /\ sockets' = saEmit(sockets, id, saFailed(e))

\* One of the two quotes of Promise.all settles.
saQuoteSettles(id, a, settled) ==
  IF a.pc # "sa_quotes"
    THEN proc' = [proc EXCEPT ![id] = a] /\ UNCHANGED sockets
  ELSE IF settled.state = "rejected"
    THEN saCatch(id, a, settled.reason)
  ELSE IF a.r.state = "fulfilled" /\ a.m.state = "fulfilled"
    THEN LET chosen == jsChosen(a.r.value, a.m.value) IN
         /\ proc' = [proc EXCEPT ![id] =
              [emit(emit(a, saRouted(chosen)), Building) EXCEPT
                 !.chosen = chosen, !.pc = "sa_sleep"]]
         /\ sockets' = saEmit(saEmit(sockets, id, saRouted(chosen)), id, Building)
  ELSE proc' = [proc EXCEPT ![id] = a] /\ UNCHANGED sockets

SaRaydiumSettles(id) ==
  /\ proc[id].r = Unsettled
  /\ \E p \in {Fulfilled(getRaydiumQuote(x)) : x \in RaydiumDraws}
                \cup {Rejected(e) : e \in QuoteErrors} :
       saQuoteSettles(id, [proc[id] EXCEPT !.r = p], p)
  /\ UNCHANGED <<request, response, db, jobs, swaps, now, cache, faults, wsClients>>

SaMeteoraSettles(id) ==
  /\ proc[id].m = Unsettled
  /\ \E p \in {Fulfilled(getMeteoraQuote(y)) : y \in MeteoraDraws}
                \cup {Rejected(e) : e \in QuoteErrors} :
       saQuoteSettles(id, [proc[id] EXCEPT !.m = p], p)
  /\ UNCHANGED <<request, response, db, jobs, swaps, now, cache, faults, wsClients>>

\* await sleep(200) is over: emit submitted, executeSwap is called.
SaSleep(id) ==
  /\ proc[id].pc = "sa_sleep"
  /\ proc' = [proc EXCEPT ![id] =
       [emit(@, Submitted) EXCEPT !.exec = Unsettled, !.pc = "sa_exec"]]
  /\ sockets' = saEmit(sockets, id, Submitted)
  /\ UNCHANGED <<request, response, db, jobs, swaps, now, cache, faults, wsClients>>

\* executeSwap returns: emit confirmed; return { txHash: exec.txHash }.
SaSwapReturns(id) ==
  /\ proc[id].pc = "sa_exec"
  /\ \E n \in SwapDraws, hex \in HexDraws, t \in DateNow(now) :
       LET exec == jsExecuteSwap(proc[id].chosen.dex, n, t, hex) IN
       /\ now' = t
       /\ proc' = [proc EXCEPT ![id] =
            [emit(@, saConfirmed(exec)) EXCEPT
               !.exec = Fulfilled(exec),
               !.result = Fulfilled([txHash |-> exec.txHash]),
               !.pc = "done"]]
       /\ sockets' = saEmit(sockets, id, saConfirmed(exec))
       /\ swaps' = Append(swaps, [id |-> id, txHash |-> exec.txHash])
  /\ UNCHANGED <<request, response, db, jobs, cache, faults, wsClients>>

\* executeSwap throws.
SaSwapThrows(id) ==
  /\ proc[id].pc = "sa_exec"
  /\ \E e \in SwapErrors :
       saCatch(id, [proc[id] EXCEPT !.exec = Rejected(e)], e)
  /\ UNCHANGED <<request, response, db, jobs, swaps, now, cache, faults, wsClients>>

\* The POST handler of server-standalone.js: processOrder(data, orderId) is
\* called and runs up to its first await (pending and routing are emitted, the
\* two quotes are requested), then the response is written.
SaSubmit ==
  /\ request # Handled
  /\ request' = Handled
  /\ IF invalid(request)
       THEN /\ response' = [code |-> 400]
            /\ UNCHANGED <<proc, sockets, now>>
       ELSE \E t \in DateNow(now), hex \in HexDraws :
              LET orderId == jsUuidv4(t, hex) IN
              /\ now' = t
              /\ proc' = [proc EXCEPT ![orderId] =
                   [emit(emit(Idle, Pending), Routing) EXCEPT
                      !.data = request, !.r = Unsettled, !.m = Unsettled,
                      !.pc = "sa_quotes"]]
              /\ sockets' = saEmit(saEmit(sockets, orderId, Pending), orderId, Routing)
              /\ response' = [code |-> 200, orderId |-> orderId]
  /\ UNCHANGED <<db, jobs, swaps, cache, faults, wsClients>>

-----------------------------------------------------------------------------
(* The standalone deployment *)

SaNext ==
  \/ SaSubmit
  \/ \E c \in Conns : Upgrade(c) \/ Close(c)
  \/ \E id \in JsIds :
       \/ SaRaydiumSettles(id)
       \/ SaMeteoraSettles(id)
       \/ SaSleep(id)
       \/ SaSwapReturns(id)
       \/ SaSwapThrows(id)

SpecSa == JsInit /\ [][SaNext]_vars

\* The response of the 'data' handler to a body longer than 1e6 characters.
TooLarge == [code |-> 413]

\* The server process has ended on an uncaught exception.
Crashed == [t |-> "crashed"]

\* The 'data' handler of POST /api/orders/execute on a body that has grown
\* beyond 1e6 characters: it answers 413 and leaves the request as it is, its
\* 'end' handler included.
SaTooLarge ==
  /\ request \notin {Handled, Crashed}
  /\ response = NoResponse
  /\ response' = TooLarge
  /\ UNCHANGED <<request, db, jobs, proc, swaps, now, cache, faults, wsClients, sockets>>

\* The 'end' handler of a request that was answered 413: it parses and
\* validates the body and starts processOrder as for any request; every
\* res.writeHead of it, the one of the catch block included, throws because
\* the headers are sent, and the exception ends the process.
SaEndTooLarge ==
  /\ request \notin {Handled, Crashed}
  /\ response = TooLarge
  /\ request' = Crashed
  /\ IF invalid(request)
       THEN UNCHANGED <<proc, sockets, now>>
       ELSE \E t \in DateNow(now), hex \in HexDraws :
              LET orderId == jsUuidv4(t, hex) IN
              /\ now' = t
              /\ proc' = [proc EXCEPT ![orderId] =
                   [emit(emit(Idle, Pending), Routing) EXCEPT
                      !.data = request, !.r = Unsettled, !.m = Unsettled,
                      !.pc = "sa_quotes"]]
              /\ sockets' = saEmit(saEmit(sockets, orderId, Pending), orderId, Routing)
  /\ UNCHANGED <<response, db, jobs, swaps, cache, faults, wsClients>>

\* The standalone server with requests whose body may exceed the limit.
SaLargeNext ==
  \/ SaTooLarge
  \/ SaEndTooLarge
  \/ request # Crashed /\ (response = TooLarge => request' = request) /\ SaNext

SpecSaLarge == JsInit /\ [][SaLargeNext]_vars

\* Orders processed concurrently, as Test 6 of standalone-test.ts and runDemo
\* do: processOrder(data, id) is called for each id without waiting for the
\* others, and runs up to its first await.
PairIds == {jsUuidv4(0, hex) : hex \in HexDraws}

SaStart(id) ==
  /\ proc[id].pc = "idle"
  /\ proc' = [proc EXCEPT ![id] =
       [emit(emit(Idle, Pending), Routing) EXCEPT
          !.data = MarketOrder, !.r = Unsettled, !.m = Unsettled, !.pc = "sa_quotes"]]
  /\ sockets' = saEmit(saEmit(sockets, id, Pending), id, Routing)
  /\ UNCHANGED <<request, response, db, jobs, swaps, now, cache, faults, wsClients>>

SaPairNext ==
  \/ \E c \in Conns : Upgrade(c) /\ (sockets'[c].state = "open" => sockets'[c].orderId \in PairIds)
  \/ \E id \in PairIds :
       \/ SaStart(id)
       \/ SaRaydiumSettles(id)
       \/ SaMeteoraSettles(id)
       \/ SaSleep(id)
       \/ SaSwapReturns(id)
       \/ SaSwapThrows(id)

SpecSaPair == JsOrderInit /\ [][SaPairNext]_vars

-----------------------------------------------------------------------------
(* The lifecycle of one run *)

Lifecycle == <<"pending", "routing", "routing", "building", "submitted", "confirmed">>

\* The status tags of the events a run has emitted, in order.
Statuses(a) == [i \in 1..Len(a.emits) |-> a.emits[i].status]

IsPrefix(s, t) == Len(s) <= Len(t) /\ s = SubSeq(t, 1, Len(s))

Running == {id \in DOMAIN proc : proc[id].pc # "idle"}

\* m occurs in s: the cases the engine produces (s is m itself).
Contains(s, m) == m = "" \/ s = m

\* The Order invariant of the data model: kind market, amount > 0, token
\* symbols non-empty and distinct.
OrderInvariant(o) ==
  /\ o # Undefined
  /\ o.type = Str("market")
  /\ o.amountIn.t = "number" /\ o.amountIn.n > 0
  /\ o.tokenIn.t = "string" /\ o.tokenIn.s # ""
  /\ o.tokenOut.t = "string" /\ o.tokenOut.s # ""
  /\ o.tokenIn # o.tokenOut

\* C1: the statuses a run on a valid order passes to emitFn are, in order, the lifecycle
\* pending, routing, routing (with chosen and price), building, submitted,
\* confirmed, or a part of it that starts at pending and stops before
\* confirmed, followed by one failed.
C1_LifecycleOrder ==
  \A id \in Running :
    LET s == Statuses(proc[id]) IN
    OrderInvariant(proc[id].data) =>
    /\ \/ IsPrefix(s, Lifecycle)
       \/ \E k \in 1..(Len(Lifecycle) - 1) : s = SubSeq(Lifecycle, 1, k) \o <<"failed">>
    /\ s[1] = "pending"
    /\ Len(s) >= 3 /\ s[3] = "routing" =>
         DOMAIN proc[id].emits[3] = {"status", "chosen", "price"}

\* C2: confirmed and failed are absorbing: no event of a run follows a
\* confirmed or a failed event of that run.
C2_TerminalAbsorbing ==
  \A id \in Running :
    \A i \in 1..Len(proc[id].emits) :
      proc[id].emits[i].status \in {"confirmed", "failed"} => i = Len(proc[id].emits)

\* C3: when executeSwap throws an error with message M, the run's last event is
\* a failed event whose reason contains M, the run has no confirmed event, and
\* processOrder rejects.
C3_ExecutionFailure ==
  \A id \in Running :
    proc[id].exec.state = "rejected" =>
      LET a == proc[id]
          last == a.emits[Len(a.emits)] IN
      /\ last.status = "failed"
      /\ Contains(last.error, a.exec.reason.message)
      /\ \A i \in 1..Len(a.emits) : a.emits[i].status # "confirmed"
      /\ Cardinality({i \in 1..Len(a.emits) : a.emits[i].status = "failed"}) = 1
      /\ a.pc = "done" => a.result.state = "rejected"

C3_Witness ==
  \E id \in Running :
    /\ proc[id].pc = "done"
    /\ proc[id].exec = Rejected(Err("swap failed"))
    /\ proc[id].emits[Len(proc[id].emits)] = [status |-> "failed", error |-> "swap failed"]

\* The run of processOrder on the same quote and execution outcomes when every
\* adapter call succeeds: its statuses and its result.
Reference(a) ==
  IF a.exec.state = "fulfilled"
    THEN [statuses |-> Lifecycle,
          result |-> Fulfilled([txHash |-> a.exec.value.txHash])]
  ELSE IF a.exec.state = "rejected"
    THEN [statuses |-> SubSeq(Lifecycle, 1, 5) \o <<"failed">>,
          result |-> Rejected(a.exec.reason)]
  ELSE IF a.r.state = "rejected"
    THEN [statuses |-> <<"pending", "routing", "failed">>,
          result |-> Rejected(a.r.reason)]
  ELSE [statuses |-> <<"pending", "routing", "failed">>,
        result |-> IF a.m.state = "rejected" THEN Rejected(a.m.reason) ELSE NotCalled]

\* C4: for every pattern of persistence failures, a run that has ended has
\* emitted the statuses and reached the result of the run in which every
\* adapter call succeeds.
C4_AdaptersDoNotAlter ==
  \A id \in Running :
    proc[id].pc = "done" =>
      /\ Statuses(proc[id]) = Reference(proc[id]).statuses
      /\ proc[id].result = Reference(proc[id]).result

\* The routing events of a run that carry a chosen source.
Routings(a) == {i \in 1..Len(a.emits) : "chosen" \in DOMAIN a.emits[i]}

\* C5: the chosen quote is the one of the two quotes with the lower price, and
\* the routing event carries its source tag and its price.
C5_LowerPriceChosen ==
  \A id \in Running :
    \A i \in Routings(proc[id]) :
      LET r == proc[id].r.value
          m == proc[id].m.value
          ev == proc[id].emits[i] IN
      /\ r.dex = "raydium" /\ m.dex = "meteora"
      /\ r.price < m.price => ev.chosen = "raydium" /\ ev.price = r.price
      /\ m.price < r.price => ev.chosen = "meteora" /\ ev.price = m.price
      /\ ev.price <= r.price /\ ev.price <= m.price
      /\ proc[id].chosen.dex = ev.chosen

C5_Witness ==
  \E id \in Running :
    /\ proc[id].r = Fulfilled([price |-> 120 * Micro, fee |-> 3000, dex |-> "raydium"])
    /\ proc[id].m = Fulfilled([price |-> 100 * Micro, fee |-> 2000, dex |-> "meteora"])
    /\ \E i \in Routings(proc[id]) : proc[id].emits[i].chosen = "meteora"

\* C8: every order that was accepted and handed to the engine satisfies the
\* Order invariant.
C8_AcceptedOrdersValid ==
  \A id \in Running : OrderInvariant(proc[id].data)

\* C10: at most one execution result is produced per order, over all attempts
\* of its job, and executeSwap is invoked only in a run whose two quotes
\* were obtained.
C10_AtMostOneExecution ==
  /\ \A i, j \in 1..Len(swaps) : swaps[i].id = swaps[j].id => i = j
  /\ \A id \in Running :
       proc[id].exec # NotCalled =>
         proc[id].r.state = "fulfilled" /\ proc[id].m.state = "fulfilled"

\* The runs of worker.js in which the routing decision has been made.
JsRouted == {id \in Running : proc[id].other # Undefined}

\* C6: when the two quotes have equal prices the router chooses raydium, in
\* processOrder of orderWorker.ts and of worker.js alike, and the chosen and
\* the other quote of worker.js are the two quotes obtained, one each.
C6_TieBreak ==
  /\ \A r \in RaydiumQuotes, m \in MeteoraQuotes :
       r.price = m.price => Chosen(r, m) = r /\ jsChosen(r, m) = r
  /\ \A id \in JsRouted :
       LET a == proc[id] IN
       /\ a.chosen # a.other
       /\ {a.chosen, a.other} = {a.r.value, a.m.value}
       /\ a.r.value.price = a.m.value.price => a.chosen.dex = "raydium"

C6_Witness ==
  \E id \in JsRouted :
    /\ proc[id].r.value.price = proc[id].m.value.price
    /\ proc[id].chosen.dex = "raydium"
    /\ proc[id].other.dex = "meteora"
    /\ \E i \in 1..Len(proc[id].emits) : proc[id].emits[i].status = "routing"

\* What the submission contract accepts: type market, tokenIn, tokenOut and
\* amountIn present, amountIn > 0.
Acceptable(o) ==
  /\ o # Undefined
  /\ o.type = Str("market")
  /\ Truthy(o.tokenIn)
  /\ Truthy(o.tokenOut)
  /\ o.amountIn.t = "number" /\ o.amountIn.n > 0

\* C7: a submission that is not acceptable never enters the state machine: no
\* job, no order record, no cache entry and no run of the engine exists for
\* anything but an acceptable submission.
C7_InvalidRejected ==
  /\ \A id \in DOMAIN jobs : jobs[id] # NoJob => Acceptable(jobs[id].data)
  /\ \A id \in DOMAIN db : db[id] # NoRow => Acceptable(db[id].payload)
  /\ \A id \in DOMAIN cache.entries :
       cache.entries[id] # NoEntry => cache.entries[id].amountIn.n > 0
  /\ \A id \in Running : Acceptable(proc[id].data)

\* C9: any two executions return different settlement identifiers.
C9_DistinctTxHash ==
  \A i, j \in 1..Len(swaps) : i # j => swaps[i].txHash # swaps[j].txHash

-----------------------------------------------------------------------------
(* The status distributor *)

\* The frames a connection has been sent.
Inbox(sock) == IF sock.state \in {"open", "closed"} THEN sock.inbox ELSE <<>>

\* The events the run of id publishes in the step.
Published(id) ==
  SubSeq(proc'[id].emits, Len(proc[id].emits) + 1, Len(proc'[id].emits))

\* The events the step delivers to connection c: those published for the id
\* whose registered sender is c's.
Delivered(c) ==
  LET ids == {id \in DOMAIN proc : wsClients[id] = Sender(c) /\ Published(id) # <<>>} IN
  IF ids = {} THEN <<>> ELSE Published(CHOOSE id \in ids : TRUE)

\* s occurs in t as a run of consecutive elements.
IsInfix(s, t) ==
  \E k \in 0..(Len(t) - Len(s)) : s = SubSeq(t, k + 1, k + Len(s))

\* C11: a published event is delivered to the callback registered for its order
\* id at that moment and to nothing else, and is dropped when there is none;
\* what a connection has received is a run of consecutive events of its order,
\* in emission order, none of them emitted before it registered.
C11_DeliverOrDrop ==
  /\ [][\A c \in Conns : Inbox(sockets'[c]) = Inbox(sockets[c]) \o Delivered(c)]_vars
  /\ [](\A c \in Conns :
          sockets[c].state \in {"open", "closed"} =>
            IsInfix(sockets[c].inbox, proc[sockets[c].orderId].emits))
  /\ [][\A c \in Conns :
          sockets[c] = NoSocket /\ sockets'[c].state = "open" => sockets'[c].inbox = <<>>]_vars

\* A connection that registered after pending and routing were emitted has
\* received the later events of its order, and only those.
C11_Witness ==
  \E c \in Conns :
    /\ sockets[c].state = "open"
    /\ Len(sockets[c].inbox) >= 2
    /\ LET e == proc[sockets[c].orderId].emits IN
       /\ Len(e) > Len(sockets[c].inbox) + 1
       /\ sockets[c].inbox = SubSeq(e, Len(e) - Len(sockets[c].inbox) + 1, Len(e))

\* Connection c registers for id in the step.
Registers(c, id) ==
  sockets[c] = NoSocket /\ sockets'[c].state = "open" /\ sockets'[c].orderId = id

\* The connection registered for id closes in the step.
RegisteredCloses(id) ==
  /\ wsClients[id] # NoSender
  /\ sockets[wsClients[id].socket].state = "open"
  /\ sockets'[wsClients[id].socket].state = "closed"

\* C12: a registration for an id replaces the callback the id had, and the
\* newly registered callback stays the one registered for the id (the one
\* events are delivered to) until a later registration for the id replaces it
\* or its own connection closes.
C12_LastWriterWins ==
  [][\A id \in DOMAIN wsClients :
       /\ \A c \in Conns : Registers(c, id) => wsClients'[id] = Sender(c)
       /\ wsClients'[id] # wsClients[id] =>
            (\E c \in Conns : Registers(c, id)) \/ RegisteredCloses(id)]_vars

\* C13: in the deployment of server.js and worker.js, every stage a run
\* reaches is delivered to the connection that is registered on the server for
\* the order id when the stage is reached.
C13_StagesDelivered ==
  [][\A id \in DOMAIN proc :
       wsClients[id] # NoSender /\ Published(id) # <<>> =>
         LET c == wsClients[id].socket IN
         Inbox(sockets'[c]) = Inbox(sockets[c]) \o Published(id)]_vars

\* C14: the id under which the engine processes an order is the orderId that
\* the submission's response carries.
C14_EngineIdIsOrderId ==
  \A id \in Running :
    /\ response # NoResponse
    /\ response.code = 200
    /\ response.orderId = id

-----------------------------------------------------------------------------
(* Dispatch *)

\* The submission was answered with an orderId.
Answered == response # NoResponse /\ response.code = 200

\* A run of the engine for id begins in the step.
Starts(id) == proc[id].pc \in {"idle", "done"} /\ proc'[id].pc \notin {"idle", "done"}

\* C15: a submission that was answered with an orderId is eventually handed to
\* the engine under that id, and a run for an id begins only when there was
\* no run for it before or the run before it has failed.
C15_HandedToEngineOnce ==
  /\ Answered ~> (Answered /\ proc[response.orderId].pc # "idle")
  /\ [][\A id \in DOMAIN proc :
          Starts(id) => proc[id].pc = "idle" \/ proc[id].result.state = "rejected"]_vars

\* The answered order was run once, to confirmed, and its job is gone.
C15_Witness ==
  /\ Answered
  /\ proc[response.orderId].pc = "done"
  /\ proc[response.orderId].result.state = "fulfilled"
  /\ jobs[response.orderId] = NoJob

\* The activation a run begins with: nothing requested yet, no event but
\* pending emitted.
Fresh(a) ==
  /\ a.emits \in {<<>>, <<Pending>>}
  /\ a.r = NotCalled /\ a.m = NotCalled /\ a.exec = NotCalled
  /\ a.chosen = Undefined /\ a.result = NotCalled

C17_OneRunPerOrder ==
  \A i, j \in DOMAIN jobs :
    /\ jobs[i] # NoJob /\ jobs[i].state = "active" /\ proc[i].pc \notin {"idle", "done"}
    /\ jobs[j] # NoJob /\ jobs[j].state = "active" /\ proc[j].pc \notin {"idle", "done"}
    /\ jobs[i].name = jobs[j].name
    => i = j

\* C18: every failed event carries a reason that is not empty, whatever was
\* thrown: an Error with a message or an Error whose message is empty.
C18_FailedHasReason ==
  \A id \in DOMAIN proc :
    \A i \in DOMAIN proc[id].emits :
      proc[id].emits[i].status = "failed" => proc[id].emits[i].error # ""

\* C19: a run that returns returns the settlement id of its execution, which
\* is the id its confirmed event carries; a run that rejects rejects with the
\* failure its catch block caught and reported in the failed event, whether or
\* not the failed status could be written to the database.
C19_ResultIsOutcome ==
  \A id \in DOMAIN proc :
    proc[id].pc = "done" =>
      /\ proc[id].result.state = "fulfilled" =>
           /\ proc[id].result.value.txHash = proc[id].exec.value.txHash
           /\ \E i \in DOMAIN proc[id].emits :
                /\ proc[id].emits[i].status = "confirmed"
                /\ proc[id].emits[i].txHash = proc[id].result.value.txHash
      /\ proc[id].result.state = "rejected" =>
           /\ proc[id].result.reason = proc[id].err
           /\ \E i \in DOMAIN proc[id].emits :
                /\ proc[id].emits[i].status = "failed"
                /\ proc[id].emits[i].error = Reason(proc[id].err)

\* The terminal events a run has emitted.
TerminalEvents(a) ==
  {i \in DOMAIN a.emits : a.emits[i].status \in {"confirmed", "failed"}}

\* C20: a run that has emitted pending comes to its end when the calls it
\* awaits complete; it never has more than one terminal event, and at its end
\* it has emitted exactly one and its result has settled.
C20_RunsToOneTerminal ==
  /\ \A id \in Ids : (proc[id].pc \notin {"idle", "done"}) ~> (proc[id].pc = "done")
  /\ [](\A id \in Ids :
          /\ Cardinality(TerminalEvents(proc[id])) <= 1
          /\ proc[id].pc = "done" =>
               /\ Cardinality(TerminalEvents(proc[id])) = 1
               /\ proc[id].result.state \in {"fulfilled", "rejected"})

\* C21: when a quote call has failed, the events of the run are pending,
\* routing and failed with the message of a failed quote call as its reason:
\* there is no routing event with a chosen source, no building, submitted or
\* confirmed event, and executeSwap is not called.
C21_QuoteFailure ==
  \A id \in Running :
    LET a == proc[id]
        failedQuotes == {q \in {a.r, a.m} : q.state = "rejected"} IN
    failedQuotes # {} =>
      /\ \E q \in failedQuotes :
           a.emits = <<[status |-> "pending"], [status |-> "routing"],
                       [status |-> "failed", error |-> q.reason.message]>>
      /\ a.chosen = Undefined
      /\ a.exec = NotCalled
      /\ a.pc = "done" => a.result.state = "rejected"

\* A run has ended after its Meteora quote failed while the Raydium quote was in.
C21_Witness ==
  \E id \in Running :
    /\ proc[id].pc = "done"
    /\ proc[id].r.state = "fulfilled"
    /\ proc[id].m = Rejected(Err("quote failed"))
    /\ Statuses(proc[id]) = <<"pending", "routing", "failed">>

\* |x|
Abs(x) == IF x < 0 THEN -x ELSE x

\* C22: the executed price of a run differs from the price of the quote the
\* run chose by less than 1% of that price. (Prices are multiples of
\* basePrice, so the hundredth of a price is exact.)
C22_SlippageBound ==
  \A id \in Running :
    proc[id].exec.state = "fulfilled" =>
      Abs(proc[id].exec.value.executedPrice - proc[id].chosen.price)
        < proc[id].chosen.price \div 100

\* The step answers a submission with orderId.
Accepts(orderId) ==
  /\ request # Handled
  /\ response'.code = 200
  /\ response'.orderId = orderId

\* C23: the orderId a submission is answered with is not the orderId of an
\* earlier accepted submission, whose job is in the queue under it.
C23_UniqueOrderIds ==
  [][\A id \in JsIds : Accepts(id) => jobs[id] = NoJob]_vars

\* The statuses of an order.
OrderStatuses == {"pending", "routing", "building", "submitted", "confirmed", "failed"}

\* C24: the status of every event a run has emitted and the status of every
\* persisted order record is one of pending, routing, building, submitted,
\* confirmed, failed.
C24_StatusDomain ==
  /\ \A id \in Running :
       \A i \in DOMAIN proc[id].emits : proc[id].emits[i].status \in OrderStatuses
  /\ \A id \in DOMAIN db : db[id] # NoRow => db[id].status \in OrderStatuses

\* The fields of an event that belong to one status: the chosen source (chosen
\* in orderWorker.ts, dex in worker.js) and the quoted price, the settlement
\* id and the executed price, the failure reason.
RoutingFields == {"chosen", "dex", "price"}
ConfirmedFields == {"txHash", "executedPrice"}
FailedFields == {"error"}

\* C25: an event carries the routing fields only when its status is routing,
\* the settlement id and the executed price when and only when its status is
\* confirmed, and the failure reason only when its status is failed.
C25_FieldsOfStatus ==
  \A id \in Running :
    \A i \in DOMAIN proc[id].emits :
      LET ev == proc[id].emits[i] IN
      /\ DOMAIN ev \cap RoutingFields # {} => ev.status = "routing"
      /\ DOMAIN ev \cap ConfirmedFields # {} => ev.status = "confirmed"
      /\ ev.status = "confirmed" => ConfirmedFields \subseteq DOMAIN ev
      /\ DOMAIN ev \cap FailedFields # {} => ev.status = "failed"

\* The failures of the calls the run has made.
CallFailures(a) == {p.reason : p \in {q \in {a.r, a.m, a.exec} : q.state = "rejected"}}

\* C26: a connection that closes leaves every run as it is; nothing is written
\* to it afterwards; and a run ends as its quotes and its execution decide,
\* whoever is listening: confirmed with the lifecycle's events when the
\* execution returned, failed with the reason of a call that failed otherwise,
\* and no error other than that of a quote or execution call reaches it.
C26_DisconnectLeavesEngine ==
  /\ [][\A c \in Conns :
          /\ sockets[c].state = "open" /\ sockets'[c].state = "closed" =>
               proc' = proc /\ swaps' = swaps
          /\ sockets[c].state = "closed" => sockets'[c] = sockets[c]]_vars
  /\ [](\A id \in Running :
          LET a == proc[id] IN
          /\ a.err # Undefined => a.err \in CallFailures(a)
          /\ a.pc = "done" =>
               IF a.exec.state = "fulfilled"
                 THEN /\ Statuses(a) = Lifecycle
                      /\ a.result = Fulfilled([txHash |-> a.exec.value.txHash])
                 ELSE /\ a.emits[Len(a.emits)] = saFailed(a.err)
                      /\ a.result = Rejected(a.err))

\* A connection received events of its order, closed before the order's
\* terminal event, and the run has ended confirmed.
C26_Witness ==
  \E c \in Conns :
    /\ sockets[c].state = "closed"
    /\ sockets[c].inbox # <<>>
    /\ sockets[c].inbox[Len(sockets[c].inbox)].status \notin {"confirmed", "failed"}
    /\ proc[sockets[c].orderId].pc = "done"
    /\ proc[sockets[c].orderId].result.state = "fulfilled"

\* C27: a quote call has no error outcome, and the quote it returns carries
\* the tag of its source, a price above 0 and the fee of its source (0.003 for
\* raydium, 0.002 for meteora, in micro), which lies in [0, 1).
C27_QuoteShape ==
  \A id \in DOMAIN proc :
    /\ proc[id].r.state \in {"none", "fulfilled"}
    /\ proc[id].m.state \in {"none", "fulfilled"}
    /\ proc[id].r.state = "fulfilled" =>
         LET q == proc[id].r.value IN
         q.dex = "raydium" /\ q.price > 0 /\ q.fee = 3000 /\ q.fee >= 0 /\ q.fee < Micro
    /\ proc[id].m.state = "fulfilled" =>
         LET q == proc[id].m.value IN
         q.dex = "meteora" /\ q.price > 0 /\ q.fee = 2000 /\ q.fee >= 0 /\ q.fee < Micro

\* Both sources have quoted at the top of their noise ranges.
C27_Witness ==
  /\ proc["u1"].r = Fulfilled(getRaydiumQuote(39999))
  /\ proc["u1"].m = Fulfilled(getMeteoraQuote(49999))
  /\ proc["u1"].r.value.price = 101999900

\* C28: when executeSwap has been called in a run, the run has emitted its
\* submitted event before, so a failed execution comes after a submitted
\* event; and a submitted event carries nothing but its status.
C28_SubmittedBeforeExecution ==
  \A id \in Running :
    LET a == proc[id] IN
    /\ a.exec.state # "none" =>
         \E i \in DOMAIN a.emits : a.emits[i].status = "submitted"
    /\ a.exec.state = "rejected" =>
         \A j \in DOMAIN a.emits :
           a.emits[j].status = "failed" =>
             \E i \in 1..(j - 1) : a.emits[i].status = "submitted"
    /\ \A i \in DOMAIN a.emits :
         a.emits[i].status = "submitted" => DOMAIN a.emits[i] = {"status"}

\* C29: the two quote calls of a run are made together; the routing event that
\* names the chosen source is emitted, and the choice made, only when both
\* quotes are in, and the choice is one of the two; and when a quote call has
\* failed the run has gone to failed, the other call still in flight or not.
C29_FanOutFanIn ==
  \A id \in Running :
    LET a == proc[id] IN
    /\ a.r.state = "none" <=> a.m.state = "none"
    /\ (a.chosen # Undefined \/ (\E i \in DOMAIN a.emits : "chosen" \in DOMAIN a.emits[i])) =>
         /\ a.r.state = "fulfilled" /\ a.m.state = "fulfilled"
         /\ a.chosen \in {a.r.value, a.m.value}
    /\ (a.r.state = "rejected" \/ a.m.state = "rejected") =>
         /\ a.pc \in {"await_failed", "done"}
         /\ a.emits[Len(a.emits)].status = "failed"

\* A run has gone to failed on its Raydium quote while the Meteora call is
\* still in flight.
C29_Witness ==
  \E id \in Running :
    /\ proc[id].r.state = "rejected"
    /\ proc[id].m = Unsettled
    /\ proc[id].emits[Len(proc[id].emits)].status = "failed"

\* The position of a run of orderWorker.ts whose write of status is in flight.
Awaiting(status) == "await_" \o status

\* C30: when a run emits an event with another status than its last event's,
\* the write of the last event's status to the database has been attempted:
\* the step is the one in which await updateOrderStatus(orderId, <that
\* status>) settles.
C30_EventsPersisted ==
  [][\A id \in DOMAIN proc :
       LET a == proc[id]
           b == proc'[id] IN
       /\ a.emits # <<>>
       /\ Len(b.emits) > Len(a.emits)
       /\ b.emits[Len(a.emits) + 1].status # a.emits[Len(a.emits)].status
       => a.pc = Awaiting(a.emits[Len(a.emits)].status)]_vars

\* C31: once the routing decision is in the order record, a step that leaves
\* the record at building, submitted, confirmed or failed leaves its chosen
\* source and its quoted price as they were.
C31_RoutingDecisionKept ==
  [][\A id \in DOMAIN db :
       /\ db[id] # NoRow
       /\ db[id].dex_chosen # Undefined
       /\ db'[id].status \in {"building", "submitted", "confirmed", "failed"}
       => /\ db'[id].dex_chosen = db[id].dex_chosen
          /\ db'[id].quote_price = db[id].quote_price]_vars

\* The static fields of an order as setActiveOrder stores them.
StaticFields == {"type", "tokenIn", "tokenOut", "amountIn"}

\* The job of the order has not come to its final outcome: it is waiting for
\* the worker, being run, or waiting for a retry.
InFlight(id) == jobs[id] # NoJob /\ jobs[id].state \in {"waiting", "active", "delayed"}

\* C32: while no cache call has failed, the active-orders cache holds an entry
\* for every order that is on its way, also between a failed attempt and its
\* retry: the entry has the order's static fields and, once the run has
\* emitted, the status of the last event; the order is in the active set.
C32_CacheTracksOrder ==
  faults = 0 =>
    \A id \in JsIds :
      InFlight(id) =>
        /\ cache.entries[id] # NoEntry
        /\ id \in cache.active
        /\ \A f \in StaticFields : cache.entries[id][f] = jobs[id].data[f]
        /\ jobs[id].state = "active" /\ proc[id].emits # <<>> =>
             cache.entries[id].status = proc[id].emits[Len(proc[id].emits)].status

\* C33: an order id is in the set of active orders only while the cache holds
\* the entry of that order.
C33_ActiveSetHasEntries ==
  \A id \in cache.active : cache.entries[id] # NoEntry

\* The events of a run of the standalone processOrder as its own quotes and
\* its own execution determine them.
SoloEvents(a) ==
  <<Pending, Routing>>
  \o (IF a.r.state = "fulfilled" /\ a.m.state = "fulfilled"
        THEN <<saRouted(jsChosen(a.r.value, a.m.value)), Building>> ELSE <<>>)
  \o (IF a.exec.state # "none" THEN <<Submitted>> ELSE <<>>)
  \o (IF a.exec.state = "fulfilled" THEN <<saConfirmed(a.exec.value)>> ELSE <<>>)
  \o (IF a.err # Undefined THEN <<saFailed(a.err)>> ELSE <<>>)

\* C34: with orders running concurrently, what a connection is sent in a step
\* are the events published in that step for the order it registered for; a
\* step of one order's run changes no other order's run; and the events of a
\* run are those its own quotes and execution determine, in that order.
C34_OrdersDoNotInterfere ==
  /\ [][\A c \in Conns :
          Inbox(sockets'[c]) # Inbox(sockets[c]) =>
            /\ sockets[c].state = "open"
            /\ wsClients[sockets[c].orderId] = Sender(c)
            /\ Inbox(sockets'[c]) = Inbox(sockets[c]) \o Published(sockets[c].orderId)]_vars
  /\ [][\A a, b \in DOMAIN proc :
          a # b /\ proc'[a] # proc[a] => proc'[b] = proc[b]]_vars
  /\ [](\A id \in Running : proc[id].emits = SoloEvents(proc[id]))

\* Two orders have run concurrently to confirmed, each watched from its start
\* by a connection of its own, which has received that order's events.
C34_Witness ==
  \E c, d \in Conns :
    /\ sockets[c].state = "open" /\ sockets[d].state = "open"
    /\ sockets[c].orderId # sockets[d].orderId
    /\ \A k \in {c, d} :
         /\ proc[sockets[k].orderId].result.state = "fulfilled"
         /\ sockets[k].inbox = proc[sockets[k].orderId].emits

\* C35: a submission to server.js is all or nothing: it is answered with an
\* orderId whose order is persisted as pending, cached and enqueued, or it is
\* answered with an error and has left no record, no cache entry and no job.
C35_SubmissionAllOrNothing ==
  [][request # Handled =>
       \/ /\ response'.code = 200
          /\ db'[response'.orderId] # NoRow
          /\ db'[response'.orderId].status = "pending"
          /\ cache'.entries[response'.orderId] # NoEntry
          /\ response'.orderId \in cache'.active
          /\ jobs'[response'.orderId] # NoJob
       \/ /\ response'.code # 200
          /\ db' = db /\ cache' = cache /\ jobs' = jobs]_vars

\* C36: the disconnect of a connection whose registration for an id has been
\* replaced by a later connection leaves the registry as it is, so that an id
\* some connected observer has registered for keeps a connected observer
\* registered, the one its events are sent to.
C36_ReplacedDisconnectKeepsRegistration ==
  /\ [][\A c \in Conns :
          /\ sockets[c].state = "open"
          /\ sockets'[c].state = "closed"
          /\ wsClients[sockets[c].orderId] # Sender(c)
          => wsClients' = wsClients]_vars
  /\ [](\A c \in Conns :
          sockets[c].state = "open" =>
            /\ wsClients[sockets[c].orderId] # NoSender
            /\ sockets[wsClients[sockets[c].orderId].socket].state = "open")

\* C37: a request that was answered 413 'Payload too large' keeps that one
\* response and starts no processing: no run of the engine has begun for any id
\* and no job is in the queue.
C37_TooLargeNotProcessed ==
  /\ [][response = TooLarge => response' = TooLarge]_vars
  /\ [](response = TooLarge =>
          \A id \in JsIds : proc[id] = Idle /\ jobs[id] = NoJob)

\* C38: a run that has ended and whose executeSwap returned a settlement id has
\* returned that id, and the persisted status of its order is confirmed,
\* whichever call after the execution has failed.
C38_ExecutedNeverFailed ==
  \A id \in DOMAIN proc :
    proc[id].pc = "done" /\ proc[id].exec.state = "fulfilled" =>
      /\ proc[id].result.state = "fulfilled"
      /\ proc[id].result.value.txHash = proc[id].exec.value.txHash
      /\ db[id] # NoRow
      /\ db[id].status = "confirmed"

\* C39: in the standalone server the events of an order are published only
\* once the submit response that carries its orderId has been sent, so that a
\* connection opened for the id after the response is sent the whole sequence
\* of the order, from pending on.
C39_ResponseBeforeEvents ==
  /\ [][\A id \in JsIds :
          Published(id) # <<>> => response = [code |-> 200, orderId |-> id]]_vars
  /\ [][\A c \in Conns, id \in JsIds :
          Registers(c, id) /\ response = [code |-> 200, orderId |-> id]
          => proc[id].emits = <<>>]_vars

====
